---- MODULE Spec2Model ----
(***************************************************************************)
(* BLACK BOX voice password vault: the encrypted vault (vault/db.py), the  *)
(* name resolvers (nlp/resolve_deterministic.py, nlp/resolve.py) and the   *)
(* UI session glue (ui/main.py).                                           *)
(*                                                                         *)
(* Storage engine.  db.py keys every connection with "PRAGMA key" and is   *)
(* documented as an SQLCipher store.  The model gives the engine cipher    *)
(* semantics: a store file carries the key it was first written under, a   *)
(* connection carries the key of its pragma, and the first statement that  *)
(* touches the file through a connection with another key raises.  A file  *)
(* of zero bytes (created by connect) has no key yet and no tables.        *)
(***************************************************************************)
EXTENDS Integers, Sequences, FiniteSets, TLC

VARIABLES
    fs,             \* the files: path -> file content
    connection,     \* VaultDatabase.connection
    is_unlocked,    \* VaultDatabase.is_unlocked
    master_key,     \* VaultDatabase.master_key
    last_activity,  \* VaultDatabase.last_activity
    now,            \* time.time()
    admin_calls,    \* how many backup / rotation / export / import calls were made
    current_state,  \* MainWindow.current_state
    view,           \* the widget MainWindow shows
    threads,        \* the recording threads alive, by where they are in _record_audio
    is_recording,   \* WhisperASR.is_recording
    handled,        \* what the last process_transcription did
    llm_available,  \* LLMResolver.is_available
    the_text,       \* the text given to the resolver
    the_sites,      \* the catalog: DeterministicResolver.sites / SiteCatalog.sites
    the_oracle,     \* what Double Metaphone makes of the text and each alias
    the_resolver,   \* which resolver was called
    the_llm,        \* the language model of the call: enabled, its response, called
    the_result,     \* the ResolutionResult returned
    in_vault,       \* the vault calls of recording threads that are past the gate
    changing        \* the change_master_passphrase in progress: where it is, its locals

----------------------------------------------------------------------------
(* Bounds *)

MaxNow == 600
TickStep == 200
MaxId == 2
MaxAccess == 2
MaxAdminCalls == 2
MaxThreads == 2

----------------------------------------------------------------------------
(* Strings: passphrases, argon2 hashes of passphrases, and None *)

None == [kind |-> "none", v |-> ""]
Plain(p) == [kind |-> "plain", v |-> p]

\* PasswordHasher.hash: the salt is dropped, any hash of p verifies exactly p
Argon2Hash(p) == [kind |-> "argon2", v |-> p.v]

\* PasswordHasher.verify: TRUE, or it raises (mismatch, or not a hash)
Argon2Verify(h, p) == h.kind = "argon2" /\ p.kind = "plain" /\ h.v = p.v

Passphrases == {Plain("p1"), Plain("p2")}

idle_timeout == 300

----------------------------------------------------------------------------
(* Files *)

DbPath == "db"
Paths == {"db", "new", "bk", "exp", "pre", "rot"}

NoFile ==
    [exists |-> FALSE, key |-> None, tables |-> FALSE, master_hash |-> None,
     rows |-> {}, seq |-> 0, last_backup |-> -1, backup_meta |-> FALSE]

\* what sqlite3.connect leaves at a path that held no file
EmptyFile == [NoFile EXCEPT !.exists = TRUE]

NoConnection == [open |-> FALSE, path |-> "", key |-> None]

\* sqlite3.connect(path) followed by PRAGMA key
Connect(f, path) == IF f[path].exists THEN f ELSE [f EXCEPT ![path] = EmptyFile]
Conn(path, k) == [open |-> TRUE, path |-> path, key |-> k]

\* a statement through a connection keyed k reads the file without raising
Readable(file, k) == file.exists /\ (file.key = k \/ file.key = None)

\* a statement on vault_entries / vault_metadata runs without raising
Usable(f, c) == c.open /\ Readable(f[c.path], c.key) /\ f[c.path].tables

----------------------------------------------------------------------------
(* The VaultDatabase object as a value, and what a call returns *)

Vault ==
    [fs |-> fs, connection |-> connection, is_unlocked |-> is_unlocked,
     master_key |-> master_key, last_activity |-> last_activity]

R(V, ret) == [v |-> V, ret |-> ret]

\* VaultDatabase._create_tables
create_tables(V) ==
    LET file == V.fs[V.connection.path]
        keyed == [file EXCEPT !.key = V.connection.key, !.tables = TRUE]
    IN  [V EXCEPT !.fs[V.connection.path] =
            IF V.master_key # None
            THEN [keyed EXCEPT !.master_hash = V.master_key]
            ELSE keyed]

\* VaultDatabase.initialize_vault
initialize_vault(V, t, p) ==
    LET V1 == [V EXCEPT !.master_key = Argon2Hash(p),
                        !.fs = Connect(V.fs, DbPath),
                        !.connection = Conn(DbPath, p)]
    IN  IF ~Readable(V1.fs[DbPath], p)
        THEN R(V1, FALSE)
        ELSE R([create_tables(V1) EXCEPT !.is_unlocked = TRUE,
                                         !.last_activity = t], TRUE)

\* VaultDatabase._get_master_hash
get_master_hash(V) ==
    IF Usable(V.fs, V.connection) THEN V.fs[V.connection.path].master_hash ELSE None

\* VaultDatabase.unlock_vault
unlock_vault(V, t, p) ==
    LET V1 == [V EXCEPT !.fs = Connect(V.fs, DbPath),
                        !.connection = Conn(DbPath, p)]
        stored_hash == get_master_hash(V1)
    IN  IF ~Readable(V1.fs[DbPath], p)
        THEN R(V1, FALSE)
        ELSE IF stored_hash # None /\ ~Argon2Verify(stored_hash, p)
        THEN R(V1, FALSE)
        ELSE R([V1 EXCEPT !.master_key = p, !.is_unlocked = TRUE,
                          !.last_activity = t], TRUE)

\* VaultDatabase.lock_vault
lock_vault(V) ==
    [V EXCEPT !.connection = NoConnection, !.is_unlocked = FALSE,
              !.master_key = None, !.last_activity = 0]

\* VaultDatabase.relock_vault
relock_vault(V) ==
    [V EXCEPT !.connection = NoConnection, !.master_key = None,
              !.is_unlocked = FALSE, !.last_activity = 0]

\* VaultDatabase.close
close(V) ==
    [V EXCEPT !.connection = NoConnection, !.is_unlocked = FALSE,
              !.master_key = None]

\* VaultDatabase._check_auto_lock
check_auto_lock(V, t) ==
    IF V.is_unlocked /\ t - V.last_activity > idle_timeout THEN lock_vault(V) ELSE V

\* VaultDatabase._update_activity
update_activity(V, t) == [V EXCEPT !.last_activity = t]

----------------------------------------------------------------------------
(* Entries *)

Sites == {"facebook", "gmail"}
\* ORDER BY site
SiteOrder == <<"facebook", "gmail">>

NoRow ==
    [id |-> 0, site |-> "", username |-> "None", password |-> <<>>, memo |-> "None",
     created_at |-> -1, updated_at |-> -1, access_count |-> 0]

\* the row with the smallest id among rs (fetchone)
FirstRow(rs) == CHOOSE r \in rs : \A q \in rs : r.id <= q.id

\* rows as the list a SELECT ... ORDER BY site returns
RECURSIVE RowList(_)
RowList(rs) ==
    IF rs = {} THEN <<>>
    ELSE LET rank(r) == CHOOSE i \in 1..Len(SiteOrder) : SiteOrder[i] = r.site
             r == CHOOSE x \in rs :
                    \A y \in rs : rank(x) < rank(y) \/ (rank(x) = rank(y) /\ x.id <= y.id)
         IN  <<r>> \o RowList(rs \ {r})

\* site LIKE %query% OR username LIKE %query%, on the strings of the model
Substrings == {<<"mail", "gmail">>, <<"book", "facebook">>}
Like(query, s) == s # "None" /\ (s = query \/ <<query, s>> \in Substrings)

\* a save that keeps the password an entry already has
save_password_keeps_password(V, t, site, password, username, memo) ==
    IF ~V.is_unlocked THEN R(V, FALSE)
    ELSE LET V1 == check_auto_lock(V, t) IN
    IF ~V1.is_unlocked THEN R(V1, FALSE)
    ELSE IF ~Usable(V1.fs, V1.connection) THEN R(V1, FALSE)
    ELSE LET file == V1.fs[DbPath]
             existing == {r \in file.rows : r.site = site}
             updated == {IF r.site = site
                         THEN [r EXCEPT !.username = username, !.memo = memo,
                                        !.updated_at = t]
                         ELSE r : r \in file.rows}
             inserted == file.rows \cup
                         {[NoRow EXCEPT !.id = file.seq + 1, !.site = site,
                                        !.username = username, !.password = password,
                                        !.memo = memo, !.created_at = t,
                                        !.updated_at = t]}
             file2 == IF existing # {}
                      THEN [file EXCEPT !.rows = updated]
                      ELSE [file EXCEPT !.rows = inserted, !.seq = file.seq + 1]
         IN  R(update_activity([V1 EXCEPT !.fs[DbPath] = file2], t), TRUE)

\* a save that inserts a new entry whether or not the site has one
save_password_inserts(V, t, site, password, username, memo) ==
    IF ~V.is_unlocked THEN R(V, FALSE)
    ELSE LET V1 == check_auto_lock(V, t) IN
    IF ~V1.is_unlocked THEN R(V1, FALSE)
    ELSE IF ~Usable(V1.fs, V1.connection) THEN R(V1, FALSE)
    ELSE LET file == V1.fs[DbPath]
             inserted == file.rows \cup
                         {[NoRow EXCEPT !.id = file.seq + 1, !.site = site,
                                        !.username = username, !.password = password,
                                        !.memo = memo, !.created_at = t,
                                        !.updated_at = t]}
             file2 == [file EXCEPT !.rows = inserted, !.seq = file.seq + 1]
         IN  R(update_activity([V1 EXCEPT !.fs[DbPath] = file2], t), TRUE)

\* VaultDatabase.save_password
save_password(V, t, site, password, username, memo) ==
    IF ~V.is_unlocked THEN R(V, FALSE)
    ELSE LET V1 == check_auto_lock(V, t) IN
    IF ~V1.is_unlocked THEN R(V1, FALSE)
    ELSE IF ~Usable(V1.fs, V1.connection) THEN R(V1, FALSE)
    ELSE LET file == V1.fs[DbPath]
             existing == {r \in file.rows : r.site = site}
             updated == {IF r.site = site
                         THEN [r EXCEPT !.password = password, !.username = username,
                                        !.memo = memo, !.updated_at = t]
                         ELSE r : r \in file.rows}
             inserted == file.rows \cup
                         {[NoRow EXCEPT !.id = file.seq + 1, !.site = site,
                                        !.username = username, !.password = password,
                                        !.memo = memo, !.created_at = t,
                                        !.updated_at = t]}
             file2 == IF existing # {}
                      THEN [file EXCEPT !.rows = updated]
                      ELSE [file EXCEPT !.rows = inserted, !.seq = file.seq + 1]
         IN  R(update_activity([V1 EXCEPT !.fs[DbPath] = file2], t), TRUE)

\* VaultDatabase.retrieve_password
retrieve_password(V, t, site) ==
    IF ~V.is_unlocked THEN R(V, NoRow)
    ELSE LET V1 == check_auto_lock(V, t) IN
    IF ~V1.is_unlocked THEN R(V1, NoRow)
    ELSE IF ~Usable(V1.fs, V1.connection) THEN R(V1, NoRow)
    ELSE LET file == V1.fs[DbPath]
             found == {r \in file.rows : r.site = site}
         IN  IF found = {} THEN R(V1, NoRow)
             ELSE LET result == FirstRow(found)
                      rows2 == {IF r.id = result.id
                                THEN [r EXCEPT !.access_count = r.access_count + 1]
                                ELSE r : r \in file.rows}
                  IN  R(update_activity([V1 EXCEPT !.fs[DbPath].rows = rows2], t),
                        [result EXCEPT !.access_count = result.access_count + 1])

\* VaultDatabase.list_entries
list_entries(V, t) ==
    IF ~V.is_unlocked THEN R(V, <<>>)
    ELSE LET V1 == check_auto_lock(V, t) IN
    IF ~V1.is_unlocked THEN R(V1, <<>>)
    ELSE IF ~Usable(V1.fs, V1.connection) THEN R(V1, <<>>)
    ELSE R(update_activity(V1, t), RowList(V1.fs[DbPath].rows))

\* VaultDatabase.delete_entry
delete_entry(V, t, site) ==
    IF ~V.is_unlocked THEN R(V, FALSE)
    ELSE LET V1 == check_auto_lock(V, t) IN
    IF ~V1.is_unlocked THEN R(V1, FALSE)
    ELSE IF ~Usable(V1.fs, V1.connection) THEN R(V1, FALSE)
    ELSE LET file == V1.fs[DbPath]
             kept == {r \in file.rows : r.site # site}
         IN  IF kept # file.rows
             THEN R(update_activity([V1 EXCEPT !.fs[DbPath].rows = kept], t), TRUE)
             ELSE R(V1, FALSE)

\* VaultDatabase.search_entries
search_entries(V, t, query) ==
    IF ~V.is_unlocked THEN R(V, <<>>)
    ELSE LET V1 == check_auto_lock(V, t) IN
    IF ~V1.is_unlocked THEN R(V1, <<>>)
    ELSE IF ~Usable(V1.fs, V1.connection) THEN R(V1, <<>>)
    ELSE R(update_activity(V1, t),
           RowList({r \in V1.fs[DbPath].rows :
                        Like(query, r.site) \/ Like(query, r.username)}))

NoStats == [total_entries |-> 0, total_accesses |-> 0, last_backup |-> -1]

RECURSIVE SumAccess(_)
SumAccess(rs) ==
    IF rs = {} THEN 0
    ELSE LET r == CHOOSE x \in rs : TRUE IN r.access_count + SumAccess(rs \ {r})

\* VaultDatabase.get_vault_stats
get_vault_stats(V, t) ==
    IF ~V.is_unlocked THEN R(V, NoStats)
    ELSE LET V1 == check_auto_lock(V, t) IN
    IF ~V1.is_unlocked THEN R(V1, NoStats)
    ELSE IF ~Usable(V1.fs, V1.connection) THEN R(V1, NoStats)
    ELSE LET file == V1.fs[DbPath]
         IN  R(update_activity(V1, t),
               [total_entries |-> Cardinality(file.rows),
                total_accesses |-> SumAccess(file.rows),
                last_backup |-> file.last_backup])

\* VaultDatabase.backup_vault
backup_vault(V, t, backup_path) ==
    IF ~V.is_unlocked THEN R(V, FALSE)
    ELSE LET V1 == check_auto_lock(V, t) IN
    IF ~V1.is_unlocked THEN R(V1, FALSE)
    ELSE IF ~V1.fs[DbPath].exists THEN R(V1, FALSE)
    ELSE LET V2 == [V1 EXCEPT !.fs[backup_path] = V1.fs[DbPath]]
         IN  IF ~Usable(V2.fs, V2.connection) THEN R(V2, FALSE)
             ELSE R(update_activity([V2 EXCEPT !.fs[DbPath].last_backup = t], t), TRUE)

NewPath == "new"

\* a change of passphrase that re-keys the store and keeps the master_hash it had
change_keeps_master_hash(V, t, old_passphrase, new_passphrase) ==
    IF ~V.is_unlocked THEN R(V, FALSE)
    ELSE LET u == unlock_vault(V, t, old_passphrase) IN
    IF ~u.ret THEN R(u.v, FALSE)
    ELSE LET V1 == [u.v EXCEPT !.fs = Connect(u.v.fs, NewPath)]
             source == V1.fs[DbPath]
         IN  IF ~Readable(V1.fs[NewPath], new_passphrase) THEN R(V1, FALSE)
             ELSE IF ~source.tables THEN R(V1, FALSE)
             ELSE LET copy == [source EXCEPT !.key = new_passphrase]
                  IN  R(update_activity(
                          [V1 EXCEPT !.fs[DbPath] = copy, !.fs[NewPath] = NoFile,
                                     !.connection = Conn(DbPath, new_passphrase),
                                     !.master_key = Argon2Hash(new_passphrase)], t), TRUE)

\* VaultDatabase.change_master_passphrase
change_master_passphrase(V, t, old_passphrase, new_passphrase) ==
    IF ~V.is_unlocked THEN R(V, FALSE)
    ELSE LET u == unlock_vault(V, t, old_passphrase) IN
    IF ~u.ret THEN R(u.v, FALSE)
    ELSE LET V1 == [u.v EXCEPT !.fs = Connect(u.v.fs, NewPath)]
             source == V1.fs[DbPath]
         IN  IF ~Readable(V1.fs[NewPath], new_passphrase) THEN R(V1, FALSE)
             ELSE IF ~source.tables THEN R(V1, FALSE)
             ELSE LET new_master_key == Argon2Hash(new_passphrase)
                      copy == [source EXCEPT !.key = new_passphrase,
                                             !.master_hash = new_master_key]
                  IN  R(update_activity(
                          [V1 EXCEPT !.fs[DbPath] = copy, !.fs[NewPath] = NoFile,
                                     !.connection = Conn(DbPath, new_passphrase),
                                     !.master_key = new_master_key], t), TRUE)

RotatePath == "rot"

\* VaultDatabase.rotate_master_key
rotate_master_key(V, t, new_passphrase) ==
    IF ~V.is_unlocked THEN R(V, FALSE)
    ELSE LET V1 == backup_vault(V, t, RotatePath).v
         IN  change_master_passphrase(V1, t, V1.master_key, new_passphrase)

\* an export that does not look at is_unlocked
export_without_gate(V, t, backup_path, passphrase) ==
    LET V1 == [V EXCEPT !.fs = Connect(V.fs, backup_path)]
        source == V1.fs[DbPath]
    IN  IF ~(V1.connection.open /\ Readable(source, V1.connection.key))
        THEN R(V1, FALSE)
        ELSE IF ~Readable(V1.fs[backup_path], passphrase) THEN R(V1, FALSE)
        ELSE IF ~source.tables THEN R(V1, FALSE)
        ELSE R([V1 EXCEPT !.fs[backup_path] =
                   [source EXCEPT !.key = passphrase, !.backup_meta = TRUE]], TRUE)

\* VaultDatabase.export_encrypted_backup
export_encrypted_backup(V, t, backup_path, passphrase) ==
    IF ~V.is_unlocked THEN R(V, FALSE)
    ELSE LET V1 == [V EXCEPT !.fs = Connect(V.fs, backup_path)]
             source == V1.fs[DbPath]
         IN  IF ~(V1.connection.open /\ Readable(source, V1.connection.key))
             THEN R(V1, FALSE)
             ELSE IF ~Readable(V1.fs[backup_path], passphrase) THEN R(V1, FALSE)
             ELSE IF ~source.tables THEN R(V1, FALSE)
             ELSE R([V1 EXCEPT !.fs[backup_path] =
                        [source EXCEPT !.key = passphrase, !.backup_meta = TRUE]], TRUE)

PreImportPath == "pre"

\* VaultDatabase.import_encrypted_backup
import_encrypted_backup(V, t, backup_path, passphrase) ==
    IF ~V.fs[backup_path].exists THEN R(V, FALSE)
    ELSE IF ~Readable(V.fs[backup_path], passphrase) THEN R(V, FALSE)
    ELSE LET V1 == IF V.is_unlocked THEN backup_vault(V, t, PreImportPath).v ELSE V
             V2 == [V1 EXCEPT !.fs[DbPath] = V1.fs[backup_path]]
         IN  unlock_vault(V2, t, passphrase)

----------------------------------------------------------------------------
(* Text: a string is a sequence of characters *)

LowerLetters == <<"a", "b", "c", "d", "e", "f", "g", "h", "i", "j", "k", "l", "m", "n", "o", "p", "q", "r", "s", "t", "u", "v", "w", "x", "y", "z">>
UpperLetters == <<"A", "B", "C", "D", "E", "F", "G", "H", "I", "J", "K", "L", "M", "N", "O", "P", "Q", "R", "S", "T", "U", "V", "W", "X", "Y", "Z">>
Digits == {"0", "1", "2", "3", "4", "5", "6", "7", "8", "9"}

\* str.lower, one character
LowerChar(c) ==
    IF \E i \in 1..Len(UpperLetters) : UpperLetters[i] = c
    THEN LowerLetters[CHOOSE i \in 1..Len(UpperLetters) : UpperLetters[i] = c]
    ELSE c

Lower(s) == [i \in 1..Len(s) |-> LowerChar(s[i])]

\* the classes \s and \w of re
IsSpace(c) == c \in {" ", "\t", "\n"}
IsLetter(c) == \E i \in 1..Len(LowerLetters) : LowerLetters[i] = c \/ UpperLetters[i] = c
IsWord(c) == IsLetter(c) \/ c \in Digits \/ c = "_"

RECURSIVE LStrip(_)
LStrip(s) == IF s # <<>> /\ IsSpace(Head(s)) THEN LStrip(Tail(s)) ELSE s

RECURSIVE RStrip(_)
RStrip(s) ==
    IF s # <<>> /\ IsSpace(s[Len(s)]) THEN RStrip(SubSeq(s, 1, Len(s) - 1)) ELSE s

\* str.strip
Strip(s) == RStrip(LStrip(s))

\* re.sub(r'\s+', ' ', s)
RECURSIVE CollapseSpaces(_)
CollapseSpaces(s) ==
    IF s = <<>> THEN <<>>
    ELSE IF IsSpace(Head(s)) THEN <<" ">> \o CollapseSpaces(LStrip(s))
    ELSE <<Head(s)>> \o CollapseSpaces(Tail(s))

\* str.split(): the words between runs of whitespace
RECURSIVE SplitFrom(_, _)
SplitFrom(s, word) ==
    IF s = <<>> THEN (IF word = <<>> THEN <<>> ELSE <<word>>)
    ELSE IF IsSpace(Head(s))
         THEN (IF word = <<>> THEN <<>> ELSE <<word>>) \o SplitFrom(Tail(s), <<>>)
         ELSE SplitFrom(Tail(s), Append(word, Head(s)))

Split(s) == SplitFrom(s, <<>>)

\* ' '.join(words)
RECURSIVE Join(_)
Join(words) ==
    IF words = <<>> THEN <<>>
    ELSE IF Len(words) = 1 THEN words[1]
    ELSE words[1] \o <<" ">> \o Join(Tail(words))

\* sub in s: the substring test of Python's "in"
Contains(s, sub) ==
    \E i \in 0..(Len(s) - Len(sub)) : SubSeq(s, i + 1, i + Len(sub)) = sub

StartsWith(s, prefix) == Len(s) >= Len(prefix) /\ SubSeq(s, 1, Len(prefix)) = prefix

\* re.sub(phrase, "", s) for a literal phrase
RECURSIVE RemoveAll(_, _)
RemoveAll(s, phrase) ==
    IF s = <<>> THEN <<>>
    ELSE IF StartsWith(s, phrase) THEN RemoveAll(SubSeq(s, Len(phrase) + 1, Len(s)), phrase)
    ELSE <<Head(s)>> \o RemoveAll(Tail(s), phrase)

----------------------------------------------------------------------------
(* Resolution results.  A confidence is a count of ten-thousandths: 0.88 is 8800. *)

NoSite == "None"

\* resolve_deterministic.ResolutionResult
ResolutionResult(site, confidence, method, original_text, cleaned_text) ==
    [site |-> site, confidence |-> confidence, method |-> method,
     original_text |-> original_text, cleaned_text |-> cleaned_text,
     needs_confirmation |-> FALSE]

\* resolve.ResolutionResult
HeuristicResult(site, confidence, method, original_text, cleaned_text) ==
    [site |-> site, confidence |-> confidence, method |-> method,
     original_text |-> original_text, cleaned_text |-> cleaned_text]

accept_threshold == 8800
llm_threshold == 8200
confirmation_threshold == 7500

----------------------------------------------------------------------------
(* Text normalizers *)

\* s is \s+ followed by suffix, or \s+ dot \s+ suffix: the whole of a match of
\* \s+(dot\s+)?suffix$
IsSuffixMatch(s, suffix) ==
    LET rest == LStrip(s)
        afterDot == LStrip(SubSeq(rest, 4, Len(rest)))
    IN  /\ s # <<>>
        /\ IsSpace(Head(s))
        /\ \/ rest = suffix
           \/ /\ StartsWith(rest, <<"d", "o", "t">>)
              /\ Len(rest) > 3
              /\ IsSpace(rest[4])
              /\ afterDot = suffix

\* re.sub(r'\s+(dot\s+)?suffix$', '', s): the leftmost match is cut
StripSuffix(s, suffix) ==
    LET starts == {i \in 1..Len(s) : IsSuffixMatch(SubSeq(s, i, Len(s)), suffix)}
    IN  IF starts = {} THEN s
        ELSE SubSeq(s, 1, (CHOOSE i \in starts : \A j \in starts : i <= j) - 1)

\* re.sub(r'[^\w\s]', ' ', s)
ReplacePunctuation(s) ==
    [i \in 1..Len(s) |-> IF IsWord(s[i]) \/ IsSpace(s[i]) THEN s[i] ELSE " "]

\* DeterministicResolver._normalize_text
normalize_text(text) ==
    LET n0 == Strip(Lower(text))
        n1 == StripSuffix(n0, <<"c", "o", "m">>)
        n2 == StripSuffix(n1, <<"o", "r", "g">>)
        n3 == StripSuffix(n2, <<"n", "e", "t">>)
        n4 == StripSuffix(n3, <<"e", "d", "u">>)
        n5 == StripSuffix(n4, <<"g", "o", "v">>)
        n6 == StripSuffix(n5, <<"m", "i", "l">>)
    IN  Strip(CollapseSpaces(ReplacePunctuation(n6)))

\* HeuristicResolver._normalize_text
heuristic_normalize_text(text) ==
    LET n0 == Strip(Lower(text))
        n1 == StripSuffix(n0, <<"c", "o", "m">>)
        n2 == StripSuffix(n1, <<"o", "r", "g">>)
        n3 == StripSuffix(n2, <<"n", "e", "t">>)
        n4 == StripSuffix(n3, <<"e", "d", "u">>)
    IN  Strip(CollapseSpaces(n4))

----------------------------------------------------------------------------
(* Matcher strategies.  A catalog is the dict sites in its order: a sequence *)
(* of [name, aliases].                                                      *)

\* DeterministicResolver._get_all_aliases / SiteCatalog.get_all_aliases
RECURSIVE get_all_aliases(_)
get_all_aliases(sites) ==
    IF sites = <<>> THEN <<>> ELSE Head(sites).aliases \o get_all_aliases(Tail(sites))

InSeq(x, seq) == \E i \in 1..Len(seq) : seq[i] = x

\* for canonical, aliases in sites.items(): if alias in aliases
CanonicalOf(sites, alias) ==
    sites[CHOOSE i \in 1..Len(sites) :
            /\ InSeq(alias, sites[i].aliases)
            /\ \A j \in 1..(i - 1) : ~InSeq(alias, sites[j].aliases)].name

\* the length of a longest common subsequence, row by row: prev[j] is the length
\* for the characters of a before c and the first j characters of b
RECURSIVE LcsRow(_, _, _, _)
LcsRow(prev, c, b, row) ==
    LET j == Len(row) + 1
        diagonal == IF j = 1 THEN 0 ELSE prev[j - 1]
        left == IF j = 1 THEN 0 ELSE row[j - 1]
    IN  IF j > Len(b) THEN row
        ELSE CHOOSE filled \in
                {LcsRow(prev, c, b, longer) :
                    longer \in {Append(row, IF c = b[j] THEN diagonal + 1
                                            ELSE IF prev[j] >= left THEN prev[j]
                                            ELSE left)}} :
                TRUE

RECURSIVE LcsRows(_, _, _)
LcsRows(a, b, prev) ==
    IF a = <<>> THEN prev
    ELSE CHOOSE last \in
            {LcsRows(rest, b, row) :
                rest \in {Tail(a)}, row \in {LcsRow(prev, Head(a), b, <<>>)}} :
            TRUE

LCS(a, b) ==
    IF b = <<>> THEN 0 ELSE LcsRows(a, b, [j \in 1..Len(b) |-> 0])[Len(b)]

\* rapidfuzz fuzz.ratio(a, b) / 100: the normalized Indel similarity
FuzzRatio(a, b) ==
    IF Len(a) + Len(b) = 0 THEN 10000
    ELSE (20000 * LCS(a, b)) \div (Len(a) + Len(b))

\* rapidfuzz process.extractOne: the index of the first choice of the best score;
\* each choice is scored once
ExtractOne(text, choices) ==
    CHOOSE i \in
        {(CHOOSE p \in scores :
            \A q \in scores : q[2] < p[2] \/ (q[2] = p[2] /\ p[1] <= q[1]))[1] :
            scores \in {{<<j, FuzzRatio(text, choices[j])>> : j \in 1..Len(choices)}}} :
        TRUE

\* the ResolutionResult of the module of the resolver
Result(resolver, site, confidence, method, original_text, cleaned_text) ==
    IF resolver = "deterministic"
    THEN ResolutionResult(site, confidence, method, original_text, cleaned_text)
    ELSE HeuristicResult(site, confidence, method, original_text, cleaned_text)

\* _exact_match of either resolver
exact_match(sites, text, method, resolver) ==
    IF InSeq(text, get_all_aliases(sites))
    THEN Result(resolver, CanonicalOf(sites, text), 10000, method, text, text)
    ELSE Result(resolver, NoSite, 0, method, text, text)

\* _fuzzy_match of either resolver, with its floor (70 or 82)
fuzzy_match(sites, text, floor, method, resolver) ==
    LET all_aliases == get_all_aliases(sites)
    IN  IF all_aliases = <<>> THEN Result(resolver, NoSite, 0, method, text, text)
        ELSE LET best == ExtractOne(text, all_aliases)
                 score == FuzzRatio(text, all_aliases[best])
             IN  IF score >= floor * 100
                 THEN Result(resolver, CanonicalOf(sites, all_aliases[best]), score, method, text, text)
                 ELSE Result(resolver, NoSite, 0, method, text, text)

\* What comparing doublemetaphone(text) with doublemetaphone(alias) can give: the
\* primary codes are equal, only the secondary codes are, or neither.  The codes come
\* from the metaphone package; a string and itself never differ in their codes.
PhoneticOutcomes == {"primary", "secondary", "none"}
PhoneticOracles(sites, text) ==
    LET aliases == {get_all_aliases(sites)[i] : i \in 1..Len(get_all_aliases(sites))}
    IN  {o \in [aliases -> PhoneticOutcomes] :
            \A a \in aliases : a = text => o[a] # "secondary"}

PhoneticScore(outcome) ==
    IF outcome = "primary" THEN 9000 ELSE IF outcome = "secondary" THEN 8000 ELSE 0

\* the (score, site) the loops of a matcher end with: the first alias, in the order
\* of the catalog, of the best score, if that score is positive; scores[i] is the
\* score of the i-th alias
BestAlias(scores) ==
    LET firsts == {i \in 1..Len(scores) :
                      /\ scores[i] > 0
                      /\ \A j \in 1..Len(scores) : scores[j] <= scores[i]
                      /\ \A j \in 1..(i - 1) : scores[j] < scores[i]}
    IN  IF firsts = {} THEN [score |-> 0, alias_index |-> 0]
        ELSE LET i == CHOOSE i \in firsts : TRUE
             IN  [score |-> scores[i], alias_index |-> i]

\* the canonical name whose alias list holds the k-th alias of the catalog
RECURSIVE OwnerOf(_, _)
OwnerOf(sites, k) ==
    IF k <= Len(Head(sites).aliases) THEN Head(sites).name
    ELSE OwnerOf(Tail(sites), k - Len(Head(sites).aliases))

\* _phonetic_match of either resolver
phonetic_match(sites, text, oracle, method, resolver) ==
    LET all_aliases == get_all_aliases(sites)
        scores == [i \in 1..Len(all_aliases) |-> PhoneticScore(oracle[all_aliases[i]])]
        best == BestAlias(scores)
    IN  IF best.score >= 8000
        THEN Result(resolver, OwnerOf(sites, best.alias_index), best.score, method, text, text)
        ELSE Result(resolver, NoSite, 0, method, text, text)

\* the words of text that are in, or hold, a word of alias
Matches(words, alias_words) ==
    Cardinality({i \in 1..Len(words) :
        \E j \in 1..Len(alias_words) :
            Contains(alias_words[j], words[i]) \/ Contains(words[i], alias_words[j])})

Max(a, b) == IF a >= b THEN a ELSE b

PartialScore(words, alias) ==
    LET alias_words == Split(alias)
        matches == Matches(words, alias_words)
        score == IF matches > 0
                 THEN (10000 * matches) \div Max(Len(words), Len(alias_words))
                 ELSE 0
    IN  IF score >= 6000 THEN score ELSE 0

\* _partial_match of either resolver
partial_match(sites, text, method, resolver) ==
    LET words == Split(text)
        all_aliases == get_all_aliases(sites)
        scores == [i \in 1..Len(all_aliases) |-> PartialScore(words, all_aliases[i])]
        best == BestAlias(scores)
    IN  IF best.score >= 6000
        THEN Result(resolver, OwnerOf(sites, best.alias_index), best.score, method, text, text)
        ELSE Result(resolver, NoSite, 0, method, text, text)

\* a loop over the strategies that lets a later result of equal confidence win
RECURSIVE BestOfLatest(_, _)
BestOfLatest(best_result, results) ==
    IF results = <<>> THEN best_result
    ELSE BestOfLatest(IF Head(results).confidence >= best_result.confidence
                      THEN Head(results) ELSE best_result, Tail(results))

\* for strategy in strategies: if result.confidence > best_result.confidence
RECURSIVE BestOf(_, _)
BestOf(best_result, results) ==
    IF results = <<>> THEN best_result
    ELSE BestOf(IF Head(results).confidence > best_result.confidence
                THEN Head(results) ELSE best_result, Tail(results))

\* the results of the four strategies of the deterministic resolver, in their order
strategies(sites, cleaned, oracle) ==
    <<exact_match(sites, cleaned, "exact_match", "deterministic"),
      fuzzy_match(sites, cleaned, 70, "fuzzy_match", "deterministic"),
      phonetic_match(sites, cleaned, oracle, "phonetic_match", "deterministic"),
      partial_match(sites, cleaned, "partial_match", "deterministic")>>

\* a resolve_site that runs the strategies on the empty text too
resolve_site_runs_strategies(sites, text, oracle) ==
    CHOOSE returned \in
        {IF best_result.confidence >= accept_threshold
         THEN [best_result EXCEPT !.needs_confirmation = FALSE]
         ELSE IF best_result.confidence >= confirmation_threshold
         THEN [best_result EXCEPT !.needs_confirmation = TRUE]
         ELSE [best_result EXCEPT !.needs_confirmation = FALSE] :
            best_result \in
                {BestOf(ResolutionResult(NoSite, 0, "deterministic", text, cleaned),
                        results) :
                    cleaned \in {normalize_text(text)},
                    results \in {strategies(sites, normalize_text(text), oracle)}}} :
        TRUE

\* DeterministicResolver.resolve_site.  A value computed once and used several times
\* (cleaned, the results, best_result) is bound as the element of a singleton set.
resolve_site(sites, text, oracle) ==
    IF text = <<>> THEN ResolutionResult(NoSite, 0, "none", text, <<>>)
    ELSE CHOOSE returned \in
            {IF best_result.confidence >= accept_threshold
             THEN [best_result EXCEPT !.needs_confirmation = FALSE]
             ELSE IF best_result.confidence >= confirmation_threshold
             THEN [best_result EXCEPT !.needs_confirmation = TRUE]
             ELSE [best_result EXCEPT !.needs_confirmation = FALSE] :
                best_result \in
                    {BestOf(ResolutionResult(NoSite, 0, "deterministic", text, cleaned),
                            results) :
                        cleaned \in {normalize_text(text)},
                        results \in {strategies(sites, normalize_text(text), oracle)}}} :
            TRUE

\* the results of the four strategies of the heuristic resolver, in their order
heuristic_strategies(sites, cleaned, oracle) ==
    <<exact_match(sites, cleaned, "heuristic", "heuristic"),
      fuzzy_match(sites, cleaned, 82, "heuristic", "heuristic"),
      phonetic_match(sites, cleaned, oracle, "heuristic", "heuristic"),
      partial_match(sites, cleaned, "heuristic", "heuristic")>>

\* HeuristicResolver.resolve_site
heuristic_resolve_site(sites, text, oracle) ==
    IF text = <<>> THEN HeuristicResult(NoSite, 0, "none", text, <<>>)
    ELSE CHOOSE best_result \in
            {BestOf(HeuristicResult(NoSite, 0, "heuristic", text, cleaned), results) :
                cleaned \in {heuristic_normalize_text(text)},
                results \in {heuristic_strategies(sites, heuristic_normalize_text(text),
                                                  oracle)}} :
            TRUE

----------------------------------------------------------------------------
(* PasswordCleaner, LLMResolver and IntentResolver of nlp/resolve.py *)

\* PasswordCleaner.remove_phrases
remove_phrases ==
    <<<<"t", "h", "e", " ", "p", "a", "s", "s", "w", "o", "r", "d", " ", "i", "s">>,
      <<"m", "y", " ", "p", "a", "s", "s", "w", "o", "r", "d", " ", "i", "s">>,
      <<"t", "h", "e", " ", "p", "a", "s", "s", "w", "o", "r", "d">>,
      <<"m", "y", " ", "p", "a", "s", "s", "w", "o", "r", "d">>,
      <<"p", "a", "s", "s", "w", "o", "r", "d", " ", "i", "s">>,
      <<"i", "t", "'", "s">>,
      <<"i", "t", " ", "i", "s">>,
      <<"u", "h">>,
      <<"u", "m">>,
      <<"e", "r">>,
      <<"a", "h">>,
      <<"l", "i", "k", "e">>,
      <<"y", "o", "u", " ", "k", "n", "o", "w">>,
      <<"i", " ", "m", "e", "a", "n">>,
      <<"s", "o">>,
      <<"w", "e", "l", "l">>,
      <<"o", "k", "a", "y">>,
      <<"o", "k">>,
      <<"r", "i", "g", "h", "t">>,
      <<"y", "e", "a", "h">>,
      <<"y", "e", "s">>,
      <<"n", "o">>,
      <<"t", "h", "e">>,
      <<"a">>,
      <<"a", "n">>,
      <<"a", "n", "d">>,
      <<"o", "r">>,
      <<"b", "u", "t">>,
      <<"f", "o", "r">>,
      <<"w", "i", "t", "h">>,
      <<"b", "y">>,
      <<"f", "r", "o", "m">>,
      <<"t", "o">>,
      <<"i", "n">>,
      <<"o", "n">>,
      <<"a", "t">>,
      <<"o", "f">>,
      <<"i", "s">>,
      <<"a", "r", "e">>,
      <<"w", "a", "s">>,
      <<"w", "e", "r", "e">>,
      <<"b", "e">>,
      <<"b", "e", "e", "n">>,
      <<"b", "e", "i", "n", "g">>,
      <<"h", "a", "v", "e">>,
      <<"h", "a", "s">>,
      <<"h", "a", "d">>,
      <<"d", "o">>,
      <<"d", "o", "e", "s">>,
      <<"d", "i", "d">>,
      <<"w", "i", "l", "l">>,
      <<"w", "o", "u", "l", "d">>,
      <<"c", "o", "u", "l", "d">>,
      <<"s", "h", "o", "u", "l", "d">>,
      <<"m", "a", "y">>,
      <<"m", "i", "g", "h", "t">>,
      <<"c", "a", "n">>,
      <<"m", "u", "s", "t">>,
      <<"s", "h", "a", "l", "l">>>>

RECURSIVE RemovePhrases(_, _)
RemovePhrases(s, phrases) ==
    IF phrases = <<>> \/ s = <<>> THEN s
    ELSE RemovePhrases(RemoveAll(s, Head(phrases)), Tail(phrases))

PasswordPunctuation == {"-", "_", "@", "#", "$", "%", "&", "*", "+", "="}
KeptNumbers ==
    {<<"1", "2", "3">>, <<"4", "5", "6">>, <<"7", "8", "9">>, <<"0", "0", "0">>,
     <<"1", "1", "1">>}

\* PasswordCleaner.clean_password
clean_password(text) ==
    IF text = <<>> THEN <<>>
    ELSE LET KeepChar(c) == IsWord(c) \/ IsSpace(c) \/ c \in PasswordPunctuation
             KeepWord(w) ==
                \/ \E i \in 1..Len(w) : IsLetter(w[i])
                \/ w \in KeptNumbers
                \/ Len(w) > 2
             c1 == RemovePhrases(Strip(Lower(text)), remove_phrases)
             c2 == Strip(CollapseSpaces(c1))
             c3 == SelectSeq(c2, KeepChar)
             filtered_words == SelectSeq(Split(c3), KeepWord)
         IN  Strip(CollapseSpaces(Join(filtered_words)))

\* words[-3:]
LastThree(words) ==
    IF Len(words) <= 3 THEN words ELSE SubSeq(words, Len(words) - 2, Len(words))

\* IntentResolver._extract_password
extract_password(text) ==
    CHOOSE password \in
        {LET words == Split(cleaned)
         IN  IF Len(words) > 1 THEN Join(LastThree(words)) ELSE cleaned :
            cleaned \in {clean_password(text)}} :
        TRUE

\* LLMResolver._call_llm: the placeholder's response
\* a response is a text that holds a JSON object or none (json); keys are the keys
\* of the object, site and confidence the values under these keys
call_llm ==
    [json |-> TRUE, keys |-> {"site", "confidence"}, site |-> NoSite, confidence |-> 0]

\* LLMResolver._parse_llm_response
parse_llm_response(response) ==
    IF response.json
    THEN [keys |-> response.keys, site |-> response.site,
          confidence |-> response.confidence]
    ELSE [keys |-> {"site", "confidence"}, site |-> NoSite, confidence |-> 0]

\* LLMResolver.resolve_site; response is what _call_llm returns
llm_resolve_site(text, is_available, response) ==
    IF ~is_available THEN HeuristicResult(NoSite, 0, "llm", text, text)
    ELSE LET result == parse_llm_response(response)
         IN  HeuristicResult(IF "site" \in result.keys THEN result.site ELSE NoSite,
                             IF "confidence" \in result.keys THEN result.confidence
                             ELSE 0,
                             "llm", text, text)

\* LLMNormalizer._validate_response_schema
validate_response_schema(result) ==
    /\ {"site", "confidence"} \subseteq result.keys
    /\ result.confidence \in 0..10000

\* LLMNormalizer._parse_response
parse_response(response) ==
    IF response.json /\ validate_response_schema(response)
    THEN [keys |-> response.keys, site |-> response.site,
          confidence |-> response.confidence]
    ELSE [keys |-> {"site", "confidence"}, site |-> NoSite, confidence |-> 0]

\* IntentResolver._resolve_site_name reaches LLMResolver._call_llm
calls_llm(heuristic_result, is_available) ==
    /\ ~(heuristic_result.confidence >= 8200)
    /\ heuristic_result.confidence < 6500
    /\ is_available

\* IntentResolver._resolve_site_name once the heuristic resolver has returned
site_name_after(heuristic_result, text, is_available, response) ==
    LET llm_result == llm_resolve_site(text, is_available, response)
    IN  IF heuristic_result.confidence >= 8200 THEN heuristic_result
        ELSE IF /\ heuristic_result.confidence < 6500
                /\ llm_result.confidence > heuristic_result.confidence
        THEN llm_result
        ELSE heuristic_result

\* IntentResolver._resolve_site_name
resolve_site_name(catalog, text, oracle, is_available, response) ==
    CHOOSE returned \in
        {site_name_after(heuristic_result, text, is_available, response) :
            heuristic_result \in {heuristic_resolve_site(catalog, text, oracle)}} :
        TRUE

\* entities.get(...) of a dict without the key
NoEntities ==
    [site |-> NoSite, site_confidence |-> 0, site_method |-> "None", password |-> <<>>]

\* IntentResolver._extract_entities
extract_entities(catalog, text, intent, oracle, is_available) ==
    IF intent \in {"save", "retrieve"}
    THEN CHOOSE entities \in
            {[site |-> site_result.site,
              site_confidence |-> site_result.confidence,
              site_method |-> site_result.method,
              password |-> IF intent = "save" THEN extract_password(text) ELSE <<>>] :
                site_result \in {resolve_site_name(catalog, text, oracle, is_available,
                                                  call_llm)}} :
            TRUE
    ELSE NoEntities

\* IntentResolver.resolve_intent; the states of the UI are lower case already
resolve_intent(catalog, text, ui_state, oracle, is_available) ==
    CHOOSE intent_result \in
        {[intent |-> ui_state, entities |-> entities,
          confidence |-> entities.site_confidence, original_text |-> text] :
            entities \in {extract_entities(catalog, text, ui_state, oracle, is_available)}} :
        TRUE

----------------------------------------------------------------------------
(* MainWindow: what a transcription does.  A handled record tells which    *)
(* vault method the handler called, for which site, at which confidence.   *)

NotHandled ==
    [intent |-> "None", site |-> NoSite, confidence |-> 0, call |-> "None", ret |-> FALSE]

Handled(intent_result, call, ret) ==
    [intent |-> intent_result.intent, site |-> intent_result.entities.site,
     confidence |-> intent_result.confidence, call |-> call, ret |-> ret]

\* MainWindow.handle_save_intent
handle_save_intent(V, t, intent_result) ==
    LET site == intent_result.entities.site
        password == intent_result.entities.password
        saved == save_password(V, t, site, password, "None", "None")
    IN  IF site # NoSite /\ password # <<>>
        THEN R(saved.v, Handled(intent_result, "save_password", saved.ret))
        ELSE R(V, Handled(intent_result, "None", FALSE))

\* MainWindow.handle_retrieve_intent
handle_retrieve_intent(V, t, intent_result) ==
    LET site == intent_result.entities.site
        entry == retrieve_password(V, t, site)
    IN  IF site # NoSite
        THEN R(entry.v, Handled(intent_result, "retrieve_password", entry.ret # NoRow))
        ELSE R(V, Handled(intent_result, "None", FALSE))

\* MainWindow.process_transcription; intent_result is what resolve_intent returns
\* for the text and the current state
process_transcription(V, t, text, intent_result) ==
    IF text = <<>> THEN R(V, NotHandled)
    ELSE IF intent_result.intent = "save" THEN handle_save_intent(V, t, intent_result)
    ELSE IF intent_result.intent = "retrieve"
    THEN handle_retrieve_intent(V, t, intent_result)
    ELSE R(V, Handled(intent_result, "None", FALSE))

----------------------------------------------------------------------------
(* Callers of the vault: the arguments they pass *)

Credentials ==
    {[password |-> <<"w", "1">>, username |-> "None", memo |-> "None"],
     [password |-> <<"w", "2">>, username |-> "u1", memo |-> "m1"]}
Queries == {"mail", "u1"}
BackupPaths == {"bk"}
ExportPaths == {"exp"}
ImportPaths == {"bk", "exp"}

\* what the recogniser can hand to process_transcription
Transcriptions ==
    {<<>>,
     <<"f", "a", "c", "e", " ", "b", "o", "o", "k">>,
     <<"f", "a", "c", "e", " ", "b", "o", "o", "k", " ", "x", "y", "z">>,
     <<"z", "z", "z">>}

\* what the user can type into the passphrase field
TypedPassphrases == Passphrases \cup {Plain("")}

\* the site catalog of the session and the catalogs given to the resolver
SessionCatalog ==
    <<[name |-> "facebook", aliases |-> <<<<"f", "a", "c", "e", " ", "b", "o", "o", "k">>>>]>>
Catalogs ==
    {<<>>,
     <<[name |-> "gmail", aliases |-> <<<<"g", "m", "a", "i", "l">>, <<"g", "o", "o", "g", "l", "e", " ", "m", "a", "i", "l">>>>],
       [name |-> "facebook", aliases |-> <<<<"f", "a", "c", "e", "b", "o", "o", "k">>, <<"f", "a", "c", "e", " ", "b", "o", "o", "k">>>>]>>,
     <<[name |-> "youtube", aliases |-> <<<<"Y", "o", "u", "T", "u", "b", "e">>, <<"y", "o", "u", " ", "t", "u", "b", "e">>>>]>>,
     <<[name |-> "facebook", aliases |-> <<<<"f", "a", "c", "e", "b", "o", "o", "k">>>>]>>}

\* what _call_llm can return once a model is behind it: the placeholder's response,
\* a text without JSON, two of the responses the prompt gives as examples, an
\* object without the key site, and a confidence above 1
LlmResponses ==
    {call_llm,
     [json |-> FALSE, keys |-> {}, site |-> NoSite, confidence |-> 0],
     [json |-> TRUE, keys |-> {"site", "confidence"}, site |-> NoSite, confidence |-> 2000],
     [json |-> TRUE, keys |-> {"site", "confidence"}, site |-> "gmail", confidence |-> 9500],
     [json |-> TRUE, keys |-> {"confidence"}, site |-> NoSite, confidence |-> 9000],
     [json |-> TRUE, keys |-> {"site", "confidence"}, site |-> "gmail", confidence |-> 15000]}

\* the texts given to the resolver
Texts ==
    {<<>>,
     <<"g", "m", "a", "i", "l">>,
     <<"G", "M", "a", "i", "l", " ", "d", "o", "t", " ", "c", "o", "m">>,
     <<"g", "m", "a", "i", "l", "!">>,
     <<"f", "a", "c", "e", "b", "o", "k">>,
     <<"m", "y", " ", "f", "a", "c", "e", " ", "b", "o", "o", "k">>,
     <<"f", "a", "c", "e", " ", "b", "o", "o", "k", " ", "x", "y", "z">>,
     <<"f", "a", "c", "e", " ", "b", "o", "o", "k", " ", "x", "y", "z", "x", "y", "z">>,
     <<"j", "e", "e", "m", "a", "i", "l">>,
     <<"g", "o", "o", "g", "l", "e", " ", "m", "a", "i", "l">>,
     <<"Y", "o", "u", "T", "u", "b", "e">>,
     <<"g", "m", "a", "i", "l", ".", "c", "o", "m">>,
     <<"g", "m", "a", "i", "l", " ", "c", "o", "m", " ", "c", "o", "m">>,
     <<"z", "z", "z">>}

vault_vars == <<fs, connection, is_unlocked, master_key, last_activity>>
session_vars == <<current_state, view, threads, is_recording, handled, llm_available>>
resolver_vars == <<the_text, the_sites, the_oracle, the_resolver, the_llm, the_result>>
step_vars == <<in_vault, changing>>
vars ==
    <<fs, connection, is_unlocked, master_key, last_activity, now, admin_calls,
      current_state, view, threads, is_recording, handled, llm_available,
      the_text, the_sites, the_oracle, the_resolver, the_llm, the_result,
      in_vault, changing>>

\* the idle timeout has expired at the time of the call
Expired == now - last_activity > idle_timeout

SiteStored(site) == \E r \in fs[DbPath].rows : r.site = site

\* the object and the files after a call
Becomes(V) ==
    /\ fs' = V.fs
    /\ connection' = V.connection
    /\ is_unlocked' = V.is_unlocked
    /\ master_key' = V.master_key
    /\ last_activity' = V.last_activity

\* VaultDatabase.__init__ on a machine without a store
NewVault ==
    /\ fs = [p \in Paths |-> NoFile]
    /\ connection = NoConnection
    /\ is_unlocked = FALSE
    /\ master_key = None
    /\ now = TickStep
    /\ last_activity = now
    /\ admin_calls = 0

NoThreads == [started |-> 0, sleeping |-> 0, transcribing |-> 0]
NoResult == ResolutionResult(NoSite, 0, "None", <<>>, <<>>)
NoOracle == [a \in {} |-> "none"]
\* no language model was asked
NoLlm == [is_available |-> FALSE, response |-> call_llm, called |-> FALSE]

\* no window is open
NoSession ==
    /\ current_state = "None"
    /\ view = "None"
    /\ threads = NoThreads
    /\ is_recording = FALSE
    /\ handled = NotHandled
    /\ llm_available = FALSE

\* no resolver is at work
NoResolver ==
    /\ the_text = <<>>
    /\ the_sites = <<>>
    /\ the_oracle = NoOracle
    /\ the_resolver = "None"
    /\ the_llm = NoLlm
    /\ the_result = NoResult

\* no call is in progress
NoChange == [pc |-> "idle", new_passphrase |-> None, before |-> NoFile]
NoSteps == in_vault = <<>> /\ changing = NoChange

Init == NewVault /\ NoSession /\ NoResolver /\ NoSteps

\* a call of the vault API by a script
ApiCall == UNCHANGED <<now, admin_calls, session_vars, resolver_vars, step_vars>>

Tick ==
    /\ now + TickStep <= MaxNow
    /\ now' = now + TickStep
    /\ UNCHANGED <<vault_vars, admin_calls, session_vars, resolver_vars, step_vars>>

InitializeVault ==
    \E p \in Passphrases :
        Becomes(initialize_vault(Vault, now, p).v) /\ ApiCall

UnlockVault ==
    \E p \in Passphrases :
        Becomes(unlock_vault(Vault, now, p).v) /\ ApiCall

LockVault == Becomes(lock_vault(Vault)) /\ ApiCall

RelockVault == Becomes(relock_vault(Vault)) /\ ApiCall

Close == Becomes(close(Vault)) /\ ApiCall

\* the insert of a save stays within the ids of the model
SaveInBounds(site) == SiteStored(site) \/ fs[DbPath].seq < MaxId

SavePassword ==
    \E site \in Sites, c \in Credentials :
        /\ SaveInBounds(site)
        /\ Becomes(save_password(Vault, now, site, c.password, c.username, c.memo).v)
        /\ ApiCall

\* the access count of a retrieve stays within the counts of the model
RetrieveInBounds(site) ==
    \A r \in fs[DbPath].rows : r.site = site => r.access_count < MaxAccess

RetrievePassword ==
    \E site \in Sites :
        /\ RetrieveInBounds(site)
        /\ Becomes(retrieve_password(Vault, now, site).v)
        /\ ApiCall

ListEntries == Becomes(list_entries(Vault, now).v) /\ ApiCall

DeleteEntry ==
    \E site \in Sites :
        Becomes(delete_entry(Vault, now, site).v) /\ ApiCall

SearchEntries ==
    \E q \in Queries :
        Becomes(search_entries(Vault, now, q).v) /\ ApiCall

GetVaultStats == Becomes(get_vault_stats(Vault, now).v) /\ ApiCall

AdminCall ==
    /\ admin_calls < MaxAdminCalls
    /\ admin_calls' = admin_calls + 1
    /\ UNCHANGED <<now, session_vars, resolver_vars, step_vars>>

BackupVault ==
    \E path \in BackupPaths :
        Becomes(backup_vault(Vault, now, path).v) /\ AdminCall

ChangeMasterPassphrase ==
    \E old \in Passphrases, new \in Passphrases :
        Becomes(change_master_passphrase(Vault, now, old, new).v) /\ AdminCall

RotateMasterKey ==
    \E new \in Passphrases :
        Becomes(rotate_master_key(Vault, now, new).v) /\ AdminCall

ExportEncryptedBackup ==
    \E path \in ExportPaths, bp \in Passphrases :
        Becomes(export_encrypted_backup(Vault, now, path, bp).v) /\ AdminCall

ImportEncryptedBackup ==
    \E path \in ImportPaths, bp \in Passphrases :
        Becomes(import_encrypted_backup(Vault, now, path, bp).v) /\ AdminCall

\* the entry API of the vault, under the clock
Next ==
    \/ Tick
    \/ InitializeVault
    \/ UnlockVault
    \/ LockVault
    \/ RelockVault
    \/ Close
    \/ SavePassword
    \/ RetrievePassword
    \/ ListEntries
    \/ DeleteEntry
    \/ SearchEntries
    \/ GetVaultStats

Spec == Init /\ [][Next]_vars

\* the backup, passphrase and import API of the vault
NextAdmin ==
    \/ InitializeVault
    \/ UnlockVault
    \/ LockVault
    \/ SavePassword
    \/ BackupVault
    \/ ChangeMasterPassphrase
    \/ RotateMasterKey
    \/ ExportEncryptedBackup
    \/ ImportEncryptedBackup

SpecAdmin == Init /\ [][NextAdmin]_vars

----------------------------------------------------------------------------
(* The resolvers on their own: one text, one catalog, one phonetic oracle *)

InitResolve ==
    /\ NewVault
    /\ NoSession
    /\ the_text \in Texts
    /\ the_sites \in Catalogs
    /\ the_oracle \in PhoneticOracles(the_sites, normalize_text(the_text))
                       \cup PhoneticOracles(the_sites, heuristic_normalize_text(the_text))
    /\ the_resolver = "None"
    /\ the_llm = NoLlm
    /\ the_result = NoResult
    /\ NoSteps

\* a call of one of the resolvers with the text
ResolverCall(resolver) ==
    /\ the_resolver = "None"
    /\ the_resolver' = resolver
    /\ UNCHANGED <<vault_vars, now, admin_calls, session_vars, the_text, the_sites,
                   the_oracle, step_vars>>

\* DeterministicResolver.resolve_site(text)
ResolveSite ==
    /\ the_oracle \in PhoneticOracles(the_sites, normalize_text(the_text))
    /\ the_result' = resolve_site(the_sites, the_text, the_oracle)
    /\ the_llm' = the_llm
    /\ ResolverCall("deterministic")

\* HeuristicResolver.resolve_site(text)
HeuristicResolveSite ==
    /\ the_oracle \in PhoneticOracles(the_sites, heuristic_normalize_text(the_text))
    /\ the_result' = heuristic_resolve_site(the_sites, the_text, the_oracle)
    /\ the_llm' = the_llm
    /\ ResolverCall("heuristic")

\* IntentResolver._resolve_site_name(text), for a response of the language model
ResolveSiteName ==
    /\ the_oracle \in PhoneticOracles(the_sites, heuristic_normalize_text(the_text))
    /\ \E heuristic_result \in {heuristic_resolve_site(the_sites, the_text, the_oracle)} :
       \E is_available \in BOOLEAN :
       \E response \in IF is_available THEN LlmResponses ELSE {call_llm} :
          /\ the_result' = site_name_after(heuristic_result, the_text, is_available,
                                           response)
          /\ the_llm' = [is_available |-> is_available, response |-> response,
                         called |-> calls_llm(heuristic_result, is_available)]
    /\ ResolverCall("intent")

NextResolve ==
    \/ ResolveSite
    \/ HeuristicResolveSite
    \/ ResolveSiteName

SpecResolve == InitResolve /\ [][NextResolve]_vars

----------------------------------------------------------------------------
(* The window (ui/main.py) with its recording threads *)

\* VaultDatabase.__init__
FreshVault ==
    [fs |-> [p \in Paths |-> NoFile], connection |-> NoConnection,
     is_unlocked |-> FALSE, master_key |-> None, last_activity |-> TickStep]

\* the files a former run of the program, initialize_vault then close, has left
FormerStore == close(initialize_vault(FreshVault, TickStep, Plain("p1")).v).fs

\* MainWindow.check_vault_status
check_vault_status(V) == IF ~V.fs[DbPath].exists THEN "passphrase" ELSE "locked"

\* MainWindow.__init__
InitSession ==
    /\ fs \in {FreshVault.fs, FormerStore}
    /\ connection = NoConnection
    /\ is_unlocked = FALSE
    /\ master_key = None
    /\ now = TickStep
    /\ last_activity = now
    /\ admin_calls = 0
    /\ current_state = check_vault_status(Vault)
    /\ view = current_state
    /\ threads = NoThreads
    /\ is_recording = FALSE
    /\ handled = NotHandled
    /\ llm_available \in BOOLEAN
    /\ the_text = <<>>
    /\ the_sites = SessionCatalog
    /\ the_oracle = NoOracle
    /\ the_resolver = "None"
    /\ the_llm = NoLlm
    /\ the_result = NoResult
    /\ NoSteps

\* the recording threads that run
Alive == threads.started + threads.sleeping + threads.transcribing + Len(in_vault)

\* a step of the window or of one of its threads
UiStep == UNCHANGED <<now, admin_calls, llm_available, resolver_vars, step_vars>>

\* MainWindow.show_main_view and its like
Show(v) == current_state' = v /\ view' = v

\* MainWindow.start_recording: the record button of the main view, or Space
StartRecording ==
    /\ view # "closed"
    /\ current_state = "main"
    /\ Alive < MaxThreads
    /\ Show("recording")
    /\ threads' = [threads EXCEPT !.started = @ + 1]
    /\ UNCHANGED <<vault_vars, is_recording, handled>>
    /\ UiStep

\* WhisperASR.start_recording, called by a new thread in transcribe_realtime
RecordAudioStart ==
    /\ threads.started > 0
    /\ threads' = [threads EXCEPT !.started = @ - 1, !.sleeping = @ + 1]
    /\ is_recording' = TRUE
    /\ UNCHANGED <<vault_vars, current_state, view, handled>>
    /\ UiStep

\* the end of the sleep of transcribe_realtime: WhisperASR.stop_recording; without
\* audio _record_audio shows the main view
RecordAudioWake ==
    /\ threads.sleeping > 0
    /\ is_recording' = FALSE
    /\ \E audio \in BOOLEAN :
          IF is_recording /\ audio
          THEN /\ threads' = [threads EXCEPT !.sleeping = @ - 1, !.transcribing = @ + 1]
               /\ UNCHANGED <<current_state, view>>
          ELSE /\ threads' = [threads EXCEPT !.sleeping = @ - 1]
               /\ Show("main")
    /\ UNCHANGED <<vault_vars, handled>>
    /\ UiStep

\* the result of WhisperASR.transcribe is empty, or transcribe raises
RecordAudioFailed ==
    /\ threads.transcribing > 0
    /\ threads' = [threads EXCEPT !.transcribing = @ - 1]
    /\ Show("main")
    /\ UNCHANGED <<vault_vars, is_recording, handled>>
    /\ UiStep

\* self.intent_resolver.resolve_intent(text, self.current_state), for each state of
\* the window and each text the recogniser can give; the catalog of the window is
\* the one it was constructed with
UiStates == {"main", "recording", "locked", "passphrase", "save", "retrieve"}
SessionAliases ==
    {get_all_aliases(SessionCatalog)[i] : i \in 1..Len(get_all_aliases(SessionCatalog))}
intent_results ==
    {[ui_state |-> ui_state, transcription |-> transcription, o |-> o,
      available |-> available,
      intent_result |-> resolve_intent(SessionCatalog, transcription, ui_state, o,
                                       available)] :
        ui_state \in UiStates, transcription \in Transcriptions,
        o \in [SessionAliases -> PhoneticOutcomes], available \in BOOLEAN}
IntentResult(ui_state, transcription, o, available) ==
    (CHOOSE r \in intent_results :
        /\ r.ui_state = ui_state
        /\ r.transcription = transcription
        /\ r.o = o
        /\ r.available = available).intent_result

\* WhisperASR.transcribe gives a text: _record_audio calls process_transcription
RecordAudioTranscribed ==
    /\ threads.transcribing > 0
    /\ \E transcription \in Transcriptions :
       \E o \in PhoneticOracles(the_sites, heuristic_normalize_text(transcription)) :
          LET intent_result ==
                 IntentResult(current_state, transcription, o, llm_available)
              r == process_transcription(Vault, now, transcription, intent_result)
          IN  /\ \A row \in r.v.fs[DbPath].rows : row.access_count <= MaxAccess
              /\ Becomes(r.v)
              /\ handled' = r.ret
    /\ threads' = [threads EXCEPT !.transcribing = @ - 1]
    /\ UNCHANGED <<current_state, view, is_recording>>
    /\ UiStep

\* MainWindow.stop_recording: the stop button of the recording view.  A recording
\* thread exists whenever that view was shown; the join may time out.
stop_recording ==
    /\ is_recording' = FALSE
    /\ Show("main")
    /\ UNCHANGED <<vault_vars, threads, handled>>
    /\ UiStep

StopRecording == view = "recording" /\ stop_recording

\* MainWindow.save_password: the save button of the main view
SaveMode ==
    /\ view = "main"
    /\ current_state' = "save"
    /\ UNCHANGED <<vault_vars, view, threads, is_recording, handled>>
    /\ UiStep

\* MainWindow.retrieve_password: the retrieve button of the main view
RetrieveMode ==
    /\ view = "main"
    /\ current_state' = "retrieve"
    /\ UNCHANGED <<vault_vars, view, threads, is_recording, handled>>
    /\ UiStep

\* MainWindow.cancel_operation: the cancel button of the main view, or Escape
CancelOperation ==
    /\ view # "closed"
    /\ \/ current_state = "recording" /\ stop_recording
       \/ /\ current_state \in {"save", "retrieve"}
          /\ current_state' = "main"
          /\ UNCHANGED <<vault_vars, view, threads, is_recording, handled>>
          /\ UiStep
       \/ /\ current_state = "passphrase"
          /\ Show("main")
          /\ UNCHANGED <<vault_vars, threads, is_recording, handled>>
          /\ UiStep

\* the unlock button of the locked view: MainWindow.show_passphrase_view
ShowPassphraseView ==
    /\ view = "locked"
    /\ Show("passphrase")
    /\ UNCHANGED <<vault_vars, threads, is_recording, handled>>
    /\ UiStep

\* the cancel button of the passphrase view: MainWindow.show_main_view
PassphraseCancel ==
    /\ view = "passphrase"
    /\ Show("main")
    /\ UNCHANGED <<vault_vars, threads, is_recording, handled>>
    /\ UiStep

\* MainWindow.unlock_vault: the unlock button of the passphrase view
WindowUnlockVault ==
    /\ view = "passphrase"
    /\ \E passphrase \in TypedPassphrases :
          IF passphrase.v = ""
          THEN UNCHANGED <<vault_vars, current_state, view>>
          ELSE LET r == unlock_vault(Vault, now, passphrase)
               IN  /\ Becomes(r.v)
                   /\ IF r.ret THEN Show("main") ELSE UNCHANGED <<current_state, view>>
    /\ UNCHANGED <<threads, is_recording, handled>>
    /\ UiStep

\* MainWindow.closeEvent; the daemon threads run on until the process ends
CloseEvent ==
    /\ view # "closed"
    /\ Becomes(close(Vault))
    /\ view' = "closed"
    /\ UNCHANGED <<current_state, threads, is_recording, handled>>
    /\ UiStep

NextSession ==
    \/ StartRecording
    \/ RecordAudioStart
    \/ RecordAudioWake
    \/ RecordAudioFailed
    \/ RecordAudioTranscribed
    \/ StopRecording
    \/ SaveMode
    \/ RetrieveMode
    \/ CancelOperation
    \/ ShowPassphraseView
    \/ PassphraseCancel
    \/ WindowUnlockVault
    \/ CloseEvent

SpecSession == InitSession /\ [][NextSession]_vars

----------------------------------------------------------------------------
(* The window with the vault call of a recording thread in two steps: the    *)
(* thread passes the gate of save_password / retrieve_password, and later it *)
(* runs the statements of the method.  Other threads run in between: no lock *)
(* is taken by MainWindow or VaultDatabase.                                  *)

\* save_password / retrieve_password up to the second test of is_unlocked
vault_gate(V, t) ==
    IF ~V.is_unlocked THEN R(V, FALSE)
    ELSE LET V1 == check_auto_lock(V, t) IN R(V1, V1.is_unlocked)

\* save_password / retrieve_password from self.connection.cursor() on: what the
\* method does past its gate, on the object as it is by then
vault_statements(V, t, c) ==
    LET passed == [V EXCEPT !.is_unlocked = TRUE, !.last_activity = t]
        saved == save_password(passed, t, c.site, c.password, "None", "None")
        entry == retrieve_password(passed, t, c.site)
    IN  IF c.call = "save_password"
        THEN IF saved.ret THEN R([saved.v EXCEPT !.is_unlocked = V.is_unlocked], TRUE)
             ELSE R(V, FALSE)
        ELSE IF entry.ret # NoRow
             THEN R([entry.v EXCEPT !.is_unlocked = V.is_unlocked], TRUE)
             ELSE R(V, FALSE)

\* WhisperASR.transcribe gives a text: _record_audio calls process_transcription,
\* which runs up to the gate of the vault method its handler calls
ProcessTranscription ==
    /\ threads.transcribing > 0
    /\ \E transcription \in Transcriptions :
       \E o \in PhoneticOracles(the_sites, heuristic_normalize_text(transcription)) :
          LET intent_result ==
                 IntentResult(current_state, transcription, o, llm_available)
              r == process_transcription(Vault, now, transcription, intent_result)
              gate == vault_gate(Vault, now)
          IN  IF r.ret.call # "None" /\ gate.ret
              THEN /\ Becomes(gate.v)
                   /\ in_vault' = Append(in_vault,
                                         [r.ret EXCEPT !.ret =
                                             intent_result.entities.password])
                   /\ handled' = handled
              ELSE /\ Becomes(r.v)
                   /\ in_vault' = in_vault
                   /\ handled' = r.ret
    /\ threads' = [threads EXCEPT !.transcribing = @ - 1]
    /\ UNCHANGED <<current_state, view, is_recording, now, admin_calls, llm_available,
                   resolver_vars, changing>>

\* a recording thread past the gate runs the statements of the vault method and
\* returns to its handler
VaultStatements ==
    /\ \E i \in 1..Len(in_vault) :
          LET c == [site |-> in_vault[i].site, call |-> in_vault[i].call,
                    password |-> in_vault[i].ret]
              r == vault_statements(Vault, now, c)
          IN  /\ \A row \in r.v.fs[DbPath].rows : row.access_count <= MaxAccess
              /\ Becomes(r.v)
              /\ handled' = [in_vault[i] EXCEPT !.ret = r.ret]
              /\ in_vault' = SubSeq(in_vault, 1, i - 1)
                                \o SubSeq(in_vault, i + 1, Len(in_vault))
    /\ UNCHANGED <<current_state, view, threads, is_recording, now, admin_calls,
                   llm_available, resolver_vars, changing>>

NextThreads ==
    \/ StartRecording
    \/ RecordAudioStart
    \/ RecordAudioWake
    \/ RecordAudioFailed
    \/ ProcessTranscription
    \/ VaultStatements
    \/ StopRecording
    \/ SaveMode
    \/ RetrieveMode
    \/ CancelOperation
    \/ ShowPassphraseView
    \/ PassphraseCancel
    \/ WindowUnlockVault
    \/ CloseEvent

SpecThreads == InitSession /\ [][NextThreads]_vars

----------------------------------------------------------------------------
(* change_master_passphrase statement by statement, with the process dying   *)
(* between two statements.  changing.pc names the statement to run next;     *)
(* changing.before is the store at db_path when the call began.              *)

\* the order of the statements of change_master_passphrase that swaps the
\* os.replace and the update of master_hash
replace_before_hash(pc) ==
    CASE pc = "connect" -> "backup"
      [] pc = "backup" -> "copying"
      [] pc = "copying" -> "replace"
      [] pc = "replace" -> "hash"
      [] pc = "hash" -> "reconnect"
      [] pc = "reconnect" -> "idle"

\* the order of the statements of change_master_passphrase
after_step(pc) ==
    CASE pc = "connect" -> "backup"
      [] pc = "backup" -> "copying"
      [] pc = "copying" -> "hash"
      [] pc = "hash" -> "replace"
      [] pc = "replace" -> "reconnect"
      [] pc = "reconnect" -> "idle"

\* one statement of change_master_passphrase: sqlite3.connect of the new path,
\* the start and the end of connection.backup, INSERT OR REPLACE of master_hash
\* with its commit, os.replace, and the new handle with the return
change_step(V, t, c) ==
    LET source == V.fs[DbPath]
        new_master_key == Argon2Hash(c.new_passphrase)
        next == [c EXCEPT !.pc = after_step(c.pc)]
    IN  CASE c.pc = "connect" ->
                [v |-> [V EXCEPT !.fs = Connect(V.fs, NewPath)], c |-> next]
          [] c.pc = "backup" ->
                IF ~Readable(V.fs[NewPath], c.new_passphrase) \/ ~source.tables
                THEN [v |-> V, c |-> NoChange]
                ELSE [v |-> [V EXCEPT !.fs[NewPath] =
                                [EmptyFile EXCEPT !.key = c.new_passphrase,
                                                  !.tables = TRUE]],
                      c |-> next]
          [] c.pc = "copying" ->
                [v |-> [V EXCEPT !.fs[NewPath] =
                           [source EXCEPT !.key = c.new_passphrase]],
                 c |-> next]
          [] c.pc = "hash" ->
                [v |-> [V EXCEPT !.fs[NewPath].master_hash = new_master_key],
                 c |-> next]
          [] c.pc = "replace" ->
                [v |-> [V EXCEPT !.fs[DbPath] = V.fs[NewPath], !.fs[NewPath] = NoFile],
                 c |-> next]
          [] c.pc = "reconnect" ->
                [v |-> update_activity(
                          [V EXCEPT !.connection = Conn(DbPath, c.new_passphrase),
                                    !.master_key = new_master_key], t),
                 c |-> NoChange]

\* the files a former run of the program has left: initialize_vault, save_password
\* and close
StoreWithEntry ==
    close(save_password(initialize_vault(FreshVault, TickStep, Plain("p1")).v, TickStep,
                        "mail", <<"w", "1">>, "None", "None").v).fs

\* VaultDatabase.__init__ over the store of a former run
InitCrash ==
    /\ fs = StoreWithEntry
    /\ connection = NoConnection
    /\ is_unlocked = FALSE
    /\ master_key = None
    /\ now = TickStep
    /\ last_activity = now
    /\ admin_calls = 0
    /\ NoSession
    /\ NoResolver
    /\ NoSteps

\* no change_master_passphrase is in progress
Idle == changing.pc = "idle"

\* change_master_passphrase up to the return of unlock_vault(old_passphrase)
ChangeBegin ==
    /\ Idle
    /\ \E old_passphrase \in Passphrases, new_passphrase \in Passphrases :
          IF ~is_unlocked
          THEN UNCHANGED <<vault_vars, changing>>
          ELSE LET u == unlock_vault(Vault, now, old_passphrase)
               IN  /\ Becomes(u.v)
                   /\ changing' =
                         IF u.ret
                         THEN [pc |-> "connect", new_passphrase |-> new_passphrase,
                               before |-> u.v.fs[DbPath]]
                         ELSE NoChange
    /\ UNCHANGED <<now, admin_calls, session_vars, resolver_vars, in_vault>>

\* the next statement of the change_master_passphrase in progress
ChangeStep ==
    /\ changing.pc \notin {"idle", "crashed"}
    /\ \E r \in {change_step(Vault, now, changing)} :
          Becomes(r.v) /\ changing' = r.c
    /\ UNCHANGED <<now, admin_calls, session_vars, resolver_vars, in_vault>>

\* the process dies inside change_master_passphrase and is started again: the
\* files stay, the object is a new VaultDatabase
Crash ==
    /\ changing.pc \notin {"idle", "crashed"}
    /\ connection' = NoConnection
    /\ is_unlocked' = FALSE
    /\ master_key' = None
    /\ last_activity' = now
    /\ changing' = [changing EXCEPT !.pc = "crashed"]
    /\ UNCHANGED <<fs, now, admin_calls, session_vars, resolver_vars, in_vault>>

\* unlock_vault after the crash
Reopen ==
    /\ changing.pc = "crashed"
    /\ \E p \in Passphrases : Becomes(unlock_vault(Vault, now, p).v)
    /\ changing' = NoChange
    /\ UNCHANGED <<now, admin_calls, session_vars, resolver_vars, in_vault>>

NextCrash ==
    \/ Idle /\ UnlockVault
    \/ Idle /\ LockVault
    \/ Idle /\ SavePassword
    \/ ChangeBegin
    \/ ChangeStep
    \/ Crash
    \/ Reopen

SpecCrash == InitCrash /\ [][NextCrash]_vars

----------------------------------------------------------------------------
(* Properties *)

\* C1: the window calls save_password or retrieve_password only for a resolution at
\* or above the accept threshold or one the user has confirmed; no step of the
\* window asks for a confirmation, so a call needs the accept threshold
CallsOnlyOnAcceptedResolution ==
    handled.call # "None" => handled.confidence >= accept_threshold

\* C2: resolve_site gives needs_confirmation false at or above 0.88, true from 0.75
\* to below 0.88, and below 0.75 no site and needs_confirmation false
ResolveSiteFollowsThresholds ==
    the_resolver = "deterministic" =>
        /\ the_result.confidence >= accept_threshold => ~the_result.needs_confirmation
        /\ (/\ the_result.confidence >= confirmation_threshold
            /\ the_result.confidence < accept_threshold) => the_result.needs_confirmation
        /\ the_result.confidence < confirmation_threshold =>
              the_result.site = NoSite /\ ~the_result.needs_confirmation

\* C3: while the vault is not unlocked, each of the ten operations returns its
\* failure value and leaves the files and the object as they are
LockedOperationsFail ==
    ~is_unlocked =>
        /\ \A site \in Sites, c \in Credentials :
              save_password(Vault, now, site, c.password, c.username, c.memo)
                  = R(Vault, FALSE)
        /\ \A site \in Sites :
              /\ retrieve_password(Vault, now, site) = R(Vault, NoRow)
              /\ delete_entry(Vault, now, site) = R(Vault, FALSE)
        /\ list_entries(Vault, now) = R(Vault, <<>>)
        /\ \A q \in Queries : search_entries(Vault, now, q) = R(Vault, <<>>)
        /\ get_vault_stats(Vault, now) = R(Vault, NoStats)
        /\ \A path \in BackupPaths : backup_vault(Vault, now, path) = R(Vault, FALSE)
        /\ \A old \in Passphrases, new \in Passphrases :
              change_master_passphrase(Vault, now, old, new) = R(Vault, FALSE)
        /\ \A new \in Passphrases : rotate_master_key(Vault, now, new) = R(Vault, FALSE)
        /\ \A path \in ExportPaths, bp \in Passphrases :
              export_encrypted_backup(Vault, now, path, bp) = R(Vault, FALSE)

\* a locked vault whose store holds entries, after lock_vault or an auto-lock
LockedWithEntries ==
    /\ ~is_unlocked
    /\ connection = NoConnection
    /\ last_activity = 0
    /\ fs[DbPath].rows # {}

\* the step is the call op, which returns r
IsCall(r) == Becomes(r.v)

\* C4: is_unlocked rises only in a successful initialize_vault, or in an unlock_vault
\* with the master passphrase of the store
UnlockedOnlyByInitializeOrUnlock ==
    [][(~is_unlocked /\ is_unlocked') =>
          \E p \in Passphrases :
             \/ initialize_vault(Vault, now, p).ret /\ IsCall(initialize_vault(Vault, now, p))
             \/ /\ Argon2Verify(fs[DbPath].master_hash, p)
                /\ unlock_vault(Vault, now, p).ret
                /\ IsCall(unlock_vault(Vault, now, p))]_vars

\* the vault is locked over an initialized store and holds nothing
Locked ==
    /\ ~is_unlocked
    /\ master_key = None
    /\ connection = NoConnection
    /\ fs[DbPath].exists
    /\ fs[DbPath].master_hash # None

\* C5: unlock_vault of a locked vault with a passphrase that is not the master
\* passphrase returns False and leaves is_unlocked, master_key, connection and
\* last_activity as they were
WrongUnlockChangesNothing ==
    Locked =>
        \A p \in Passphrases :
            ~Argon2Verify(fs[DbPath].master_hash, p) =>
                unlock_vault(Vault, now, p) = R(Vault, FALSE)

\* C6: unlock_vault returns True only for an existing store with a master_hash the
\* passphrase verifies against; without the file or the record it returns False
\* and creates no file
UnlockNeedsVerifiedStore ==
    \A p \in Passphrases :
        LET r == unlock_vault(Vault, now, p)
        IN  /\ r.ret => /\ fs[DbPath].exists
                        /\ fs[DbPath].master_hash # None
                        /\ Argon2Verify(fs[DbPath].master_hash, p)
            /\ (~fs[DbPath].exists \/ fs[DbPath].master_hash = None) =>
                  ~r.ret /\ r.v.fs[DbPath].exists = fs[DbPath].exists

\* C7: a vault that is not unlocked holds no key and no connection
LockedHoldsNothing ==
    ~is_unlocked => master_key = None /\ connection = NoConnection

\* C8: called after the idle timeout has expired, each of the ten operations locks
\* the vault and returns its failure value, and no file is read or written
ExpiredOperationsLock ==
    (is_unlocked /\ Expired) =>
        LET locked == lock_vault(Vault)
        IN  /\ \A site \in Sites, c \in Credentials :
                  save_password(Vault, now, site, c.password, c.username, c.memo)
                      = R(locked, FALSE)
            /\ \A site \in Sites :
                  /\ retrieve_password(Vault, now, site) = R(locked, NoRow)
                  /\ delete_entry(Vault, now, site) = R(locked, FALSE)
            /\ list_entries(Vault, now) = R(locked, <<>>)
            /\ \A q \in Queries : search_entries(Vault, now, q) = R(locked, <<>>)
            /\ get_vault_stats(Vault, now) = R(locked, NoStats)
            /\ \A path \in BackupPaths : backup_vault(Vault, now, path) = R(locked, FALSE)
            /\ \A old \in Passphrases, new \in Passphrases :
                  change_master_passphrase(Vault, now, old, new) = R(locked, FALSE)
            /\ \A new \in Passphrases :
                  rotate_master_key(Vault, now, new) = R(locked, FALSE)
            /\ \A path \in ExportPaths, bp \in Passphrases :
                  export_encrypted_backup(Vault, now, path, bp) = R(locked, FALSE)

\* retrieve_password(site) on V returns the entry of site with this password
Retrieves(V, site, password) ==
    LET entry == retrieve_password(V, now, site).ret
    IN  entry # NoRow /\ entry.site = site /\ entry.password = password

\* the vault after one save, retrieve or delete on a site other than site
AfterCallOnOtherSite(V, site) ==
    {save_password(V, now, o, c.password, c.username, c.memo).v :
        o \in Sites \ {site}, c \in Credentials}
    \cup {retrieve_password(V, now, o).v : o \in Sites \ {site}}
    \cup {delete_entry(V, now, o).v : o \in Sites \ {site}}

\* C9: on an unlocked vault a successful save of (site, password) makes
\* retrieve_password(site) return that site and password, and a save, retrieve or
\* delete on another site leaves what retrieve_password(site) returns
SaveThenRetrieve ==
    (is_unlocked /\ ~Expired) =>
        \A site \in Sites, c \in Credentials :
            LET saved == save_password(Vault, now, site, c.password, c.username, c.memo)
            IN  /\ saved.ret => Retrieves(saved.v, site, c.password)
                /\ Retrieves(Vault, site, c.password) =>
                      \A V2 \in AfterCallOnOtherSite(Vault, site) :
                          Retrieves(V2, site, c.password)

\* both sites are stored, one was saved a second time and retrieved
SavedAgainAndRetrieved ==
    /\ is_unlocked /\ ~Expired
    /\ \A site \in Sites : SiteStored(site)
    /\ \E r \in fs[DbPath].rows : r.updated_at > r.created_at /\ r.access_count > 0

AtMostOnePerSite(rows) == \A r1 \in rows, r2 \in rows : r1.site = r2.site => r1 = r2

\* C10: the store holds at most one entry per site, and a save of a stored site
\* keeps the number of entries and the id, created_at and access_count of the
\* entry, whose password, username and memo become those of the save
UpsertInPlace ==
    /\ AtMostOnePerSite(fs[DbPath].rows)
    /\ (is_unlocked /\ ~Expired) =>
          \A site \in Sites, c \in Credentials :
              LET saved == save_password(Vault, now, site, c.password, c.username, c.memo)
                  rows2 == saved.v.fs[DbPath].rows
              IN  (SiteStored(site) /\ saved.ret) =>
                     /\ Len(list_entries(saved.v, now).ret) = Len(list_entries(Vault, now).ret)
                     /\ AtMostOnePerSite(rows2)
                     /\ \A before \in fs[DbPath].rows :
                           before.site = site =>
                              \E after \in rows2 :
                                 /\ after.site = site
                                 /\ after.id = before.id
                                 /\ after.created_at = before.created_at
                                 /\ after.access_count = before.access_count
                                 /\ after.password = c.password
                                 /\ after.username = c.username
                                 /\ after.memo = c.memo

\* an entry that was retrieved carries the username and memo of a second save,
\* next to an entry of the other site
EntryUpdatedInPlace ==
    /\ is_unlocked
    /\ Cardinality(fs[DbPath].rows) = 2
    /\ \E r \in fs[DbPath].rows :
          /\ r.id = 1
          /\ r.updated_at > r.created_at
          /\ r.username = "u1"
          /\ r.access_count > 0

\* the entries of sites other than site
OtherEntries(rows, site) == {r \in rows : r.site # site}

\* C11: on an unlocked vault retrieve_password of a stored site adds exactly 1 to the
\* stored access_count of its entry, changes no other entry and returns the entry
\* with the new count; for a site without an entry it returns None and changes no
\* entry
RetrieveCountsAccess ==
    (is_unlocked /\ ~Expired) =>
        \A site \in Sites :
            LET entry == retrieve_password(Vault, now, site)
                rows2 == entry.v.fs[DbPath].rows
            IN  IF SiteStored(site)
                THEN /\ entry.ret # NoRow
                     /\ entry.ret.site = site
                     /\ \A before \in fs[DbPath].rows :
                           before.site = site =>
                              /\ [before EXCEPT !.access_count = @ + 1] \in rows2
                              /\ entry.ret.access_count = before.access_count + 1
                     /\ OtherEntries(rows2, site) = OtherEntries(fs[DbPath].rows, site)
                     /\ Cardinality(rows2) = Cardinality(fs[DbPath].rows)
                ELSE /\ entry.ret = NoRow
                     /\ rows2 = fs[DbPath].rows

\* C12: on an unlocked vault delete_entry returns True exactly when the site had an
\* entry; after True the site is neither retrieved nor listed and every other
\* entry is as before; after False the store is as before
DeleteRemovesEntry ==
    (is_unlocked /\ ~Expired) =>
        \A site \in Sites :
            LET deleted == delete_entry(Vault, now, site)
                rows2 == deleted.v.fs[DbPath].rows
                listed == list_entries(deleted.v, now).ret
            IN  /\ deleted.ret = SiteStored(site)
                /\ deleted.ret =>
                      /\ retrieve_password(deleted.v, now, site).ret = NoRow
                      /\ \A i \in 1..Len(listed) : listed[i].site # site
                      /\ rows2 = OtherEntries(fs[DbPath].rows, site)
                /\ ~deleted.ret => deleted.v.fs = fs

\* C13: after change_master_passphrase(old, new) returns True with new other than
\* old, lock_vault and unlock_vault(new) succeed, every entry of before the change
\* is retrieved with its site, username, password and memo, and unlock_vault(old)
\* of the locked vault returns False
ChangeThenUnlockWithNew ==
    is_unlocked =>
        \A old \in Passphrases, new \in Passphrases :
            LET changed == change_master_passphrase(Vault, now, old, new)
                locked == lock_vault(changed.v)
                unlocked == unlock_vault(locked, now, new)
            IN  (new # old /\ changed.ret) =>
                   /\ unlocked.ret
                   /\ unlocked.v.is_unlocked
                   /\ \A before \in fs[DbPath].rows :
                         LET entry == retrieve_password(unlocked.v, now, before.site).ret
                         IN  /\ entry.site = before.site
                             /\ entry.username = before.username
                             /\ entry.password = before.password
                             /\ entry.memo = before.memo
                   /\ ~unlock_vault(locked, now, old).ret

\* a store with entries that was backed up under p1 and changed to p2, and the
\* vault unlocked with p2 after the change
ChangedAndUnlockedWithNew ==
    /\ is_unlocked
    /\ master_key = Plain("p2")
    /\ fs[DbPath].key = Plain("p2")
    /\ fs[DbPath].master_hash = Argon2Hash(Plain("p2"))
    /\ fs[DbPath].rows # {}
    /\ fs["bk"].key = Plain("p1")
    /\ fs["bk"].master_hash = Argon2Hash(Plain("p1"))
    /\ fs["bk"].rows = fs[DbPath].rows

\* C14: change_master_passphrase with an old passphrase that is not the master
\* passphrase, on an unlocked vault with a working handle, returns False and leaves
\* the object and the files as they were
WrongOldPassphraseChangesNothing ==
    (is_unlocked /\ Usable(fs, connection)) =>
        \A old \in Passphrases, new \in Passphrases :
            ~Argon2Verify(fs[DbPath].master_hash, old) =>
                change_master_passphrase(Vault, now, old, new) = R(Vault, FALSE)

\* the (site, username, password, memo) of the entries list_entries returns
Listed(V) ==
    LET entries == list_entries(V, now).ret
    IN  {[site |-> entries[i].site, username |-> entries[i].username,
          password |-> entries[i].password, memo |-> entries[i].memo] :
            i \in 1..Len(entries)}

\* C15: after export_encrypted_backup(path, bp) returns True on an unlocked vault,
\* import_encrypted_backup(path, bp) returns True for every bp, the vault is
\* unlocked and list_entries returns the entries of before the export
ExportThenImportRestores ==
    (is_unlocked /\ Usable(fs, connection)) =>
        \A path \in ExportPaths, bp \in Passphrases :
            LET exported == export_encrypted_backup(Vault, now, path, bp)
                imported == import_encrypted_backup(exported.v, now, path, bp)
            IN  exported.ret =>
                   /\ imported.ret
                   /\ imported.v.is_unlocked
                   /\ Listed(imported.v) = Listed(Vault)

\* C16: an import that overwrites an existing store has written a copy of that
\* store to the pre-import path first, so that after an import that returns False
\* the previous store is at db_path or at the pre-import path
ImportSnapshotsFirst ==
    \A path \in ImportPaths, bp \in Passphrases :
        LET previous == fs[DbPath]
            imported == import_encrypted_backup(Vault, now, path, bp)
            overwrites == fs[path].exists /\ Readable(fs[path], bp)
        IN  (previous.exists /\ overwrites) =>
               /\ imported.v.fs[PreImportPath] = previous
               /\ ~imported.ret =>
                     \E kept \in {DbPath, PreImportPath} :
                        /\ imported.v.fs[kept].key = previous.key
                        /\ imported.v.fs[kept].master_hash = previous.master_hash
                        /\ imported.v.fs[kept].rows = previous.rows

\* C17: initialize_vault on an existing store file returns False and leaves the
\* store as it was
InitializeExistingStoreFails ==
    fs[DbPath].exists =>
        \A p \in Passphrases :
            LET initialized == initialize_vault(Vault, now, p)
            IN  /\ ~initialized.ret
                /\ initialized.v.fs[DbPath] = fs[DbPath]

\* C18: resolve_site of a text that is an alias of the catalog returns the canonical
\* name the alias is listed under, with confidence 1.0 and needs_confirmation false
ExactAliasLaw ==
    the_resolver = "deterministic" =>
        \A i \in 1..Len(the_sites) :
            InSeq(the_text, the_sites[i].aliases) =>
                /\ the_result.site = the_sites[i].name
                /\ the_result.confidence = 10000
                /\ ~the_result.needs_confirmation

\* C19: a result of a resolver without a site has confidence 0.0, and the
\* confidence of every result is between 0 and 1
NoSiteMeansNoConfidence ==
    the_resolver # "None" =>
        /\ the_result.site = NoSite => the_result.confidence = 0
        /\ the_result.confidence \in 0..10000

\* C20: resolve_site of the empty text returns no site and confidence 0.0, from
\* the return that precedes the strategies (the method of that result is "none")
EmptyTextIsNoMatch ==
    (the_resolver \in {"deterministic", "heuristic"} /\ the_text = <<>>) =>
        /\ the_result.site = NoSite
        /\ the_result.confidence = 0
        /\ the_result.method = "none"
        /\ the_result.cleaned_text = <<>>

\* the deterministic resolver was given the empty text over a catalog with aliases
EmptyTextResolved ==
    /\ the_resolver = "deterministic"
    /\ the_text = <<>>
    /\ the_sites # <<>>
    /\ the_result.method = "none"

\* C21: the normalizers are idempotent: normalizing the normalized text of a
\* resolver call gives the normalized text again
NormalizerIdempotent ==
    the_resolver # "None" =>
        /\ normalize_text(normalize_text(the_text)) = normalize_text(the_text)
        /\ heuristic_normalize_text(heuristic_normalize_text(the_text))
              = heuristic_normalize_text(the_text)

\* C22: _resolve_site_name returns the heuristic result unchanged when its
\* confidence is at least 0.88, calls the language model exactly when the
\* heuristic confidence is below 0.82 and the model is enabled, and returns another
\* result than the heuristic one only when that is the result of the language
\* model and its confidence is strictly greater
LlmCalledBelowThreshold ==
    the_resolver = "intent" =>
        \A heuristic_result \in {heuristic_resolve_site(the_sites, the_text, the_oracle)} :
            /\ heuristic_result.confidence >= accept_threshold =>
                    the_result = heuristic_result
            /\ the_llm.called <=>
                    (heuristic_result.confidence < llm_threshold /\ the_llm.is_available)
            /\ the_result # heuristic_result =>
                    /\ the_result = llm_resolve_site(the_text, the_llm.is_available,
                                                     the_llm.response)
                    /\ the_result.confidence > heuristic_result.confidence

\* C23: a response of the language model that is not parseable, lacks site or
\* confidence, or has a confidence outside [0, 1] is discarded as a whole:
\* _resolve_site_name returns exactly the heuristic result
MalformedResponseDiscarded ==
    (/\ the_resolver = "intent"
     /\ the_llm.called
     /\ ~(the_llm.response.json /\ validate_response_schema(the_llm.response))) =>
        the_result = heuristic_resolve_site(the_sites, the_text, the_oracle)

\* a file at db_path that is not a database: no key opens it
NotADatabase == [EmptyFile EXCEPT !.key = [kind |-> "garbage", v |-> ""]]

\* C24: on an initialized store, what unlock_vault returns for a wrong passphrase
\* differs from what it returns when the store cannot be read, so that the two
\* failures can be told apart from the returned value
UnlockFailuresDistinguished ==
    fs[DbPath].master_hash # None =>
        \A wrong \in Passphrases, right \in Passphrases :
            (/\ Argon2Verify(fs[DbPath].master_hash, right)
             /\ ~Argon2Verify(fs[DbPath].master_hash, wrong)) =>
                unlock_vault(Vault, now, wrong).ret
                    # unlock_vault([Vault EXCEPT !.fs[DbPath] = NotADatabase], now,
                                   right).ret

\* C25: resolve_site("facebok") over a catalog whose only alias close to the text
\* is "facebook" returns the site facebook from the fuzzy strategy, with a
\* confidence between 0.70 and 0.87 and needs_confirmation true
FacebokNeedsConfirmation ==
    (/\ the_resolver = "deterministic"
     /\ the_text = <<"f", "a", "c", "e", "b", "o", "k">>
     /\ get_all_aliases(the_sites) = <<<<"f", "a", "c", "e", "b", "o", "o", "k">>>>) =>
        /\ the_result.site = "facebook"
        /\ the_result.method = "fuzzy_match"
        /\ the_result.confidence \in 7000..8700
        /\ the_result.needs_confirmation

\* C28: when a strategy finds a candidate, resolve_site returns the candidate of
\* the strategy with the highest confidence, and of the strategies with that
\* confidence the earliest in the order exact, fuzzy, phonetic, partial
HighestConfidenceWins ==
    (the_resolver = "deterministic" /\ the_text # <<>>) =>
        \A results \in {strategies(the_sites, normalize_text(the_text), the_oracle)} :
            (\E i \in 1..4 : results[i].confidence > 0) =>
                \E i \in 1..4 :
                    /\ \A j \in 1..4 : results[j].confidence <= results[i].confidence
                    /\ \A j \in 1..(i - 1) : results[j].confidence < results[i].confidence
                    /\ the_result.site = results[i].site
                    /\ the_result.confidence = results[i].confidence
                    /\ the_result.method = results[i].method

\* two strategies found a candidate with the same, highest confidence, and the
\* result is that of the earlier one
TieWentToEarliest ==
    /\ the_resolver = "deterministic"
    /\ the_text # <<>>
    /\ \E results \in {strategies(the_sites, normalize_text(the_text), the_oracle)} :
       \E i \in 1..4, k \in 1..4 :
            /\ i < k
            /\ results[i].confidence > 0
            /\ results[k].confidence = results[i].confidence
            /\ results[k].method # results[i].method
            /\ \A j \in 1..4 : results[j].confidence <= results[i].confidence
            /\ the_result.method = results[i].method

\* C29: on an unlocked vault with a working handle, master_key is the passphrase
\* under which the store opens; rotate_master_key(new) returns True, after it
\* lock_vault and unlock_vault(new) give a vault with the entries of before, and a
\* second rotate_master_key returns True as well
RotationKeepsVaultOpenable ==
    (is_unlocked /\ ~Expired /\ Usable(fs, connection)) =>
        /\ master_key = connection.key
        /\ \A new \in Passphrases, again \in Passphrases :
              LET rotated == rotate_master_key(Vault, now, new)
                  reopened == unlock_vault(lock_vault(rotated.v), now, new)
                  second == rotate_master_key(rotated.v, now, again)
              IN  /\ rotated.ret
                  /\ reopened.ret
                  /\ Listed(reopened.v) = Listed(Vault)
                  /\ second.ret

\* C30: a transcription is dispatched under the mode the user chose: the state
\* process_transcription hands to resolve_intent as the intent is save, retrieve
\* or cancel, never another state of the window
DispatchedUnderChosenMode ==
    handled # NotHandled => handled.intent \in {"save", "retrieve", "cancel"}

\* C27: at most one thread is inside an operation of the vault at any time: no
\* second recording thread passes the gate of a vault method while one is past
\* it, and while a recording thread is past the gate no call from another thread
\* (unlock_vault, close) changes the vault object
OneThreadInVault ==
    [][/\ Len(in_vault') <= 1
       /\ (in_vault # <<>> /\ in_vault' = in_vault) =>
              <<connection, is_unlocked, master_key>>'
                  = <<connection, is_unlocked, master_key>>]_vars

\* C26: from the start of a change_master_passphrase on, also after a crash at
\* any of its statements, the file at db_path is the complete store of before the
\* call or the complete store under the new passphrase (its key and master_hash
\* both of the new passphrase), never a part of a store
StoreOldOrNew ==
    ~Idle =>
        \/ fs[DbPath] = changing.before
        \/ fs[DbPath] = [changing.before EXCEPT
                            !.key = changing.new_passphrase,
                            !.master_hash = Argon2Hash(changing.new_passphrase)]

\* the process died while connection.backup was writing the new store: the file at
\* the new path holds a part of the store, db_path the store of before with its
\* entry
CrashedWhileCopying ==
    /\ changing.pc = "crashed"
    /\ changing.before.rows # {}
    /\ fs[NewPath].exists
    /\ fs[NewPath].key = changing.new_passphrase
    /\ fs[NewPath].rows = {}
    /\ fs[DbPath] = changing.before

====
